---- MODULE Spec2Model ----
(***************************************************************************)
(* The combinator and state-propagation engine of pythonwhat:              *)
(*   checks/check_logic.py    multi, check_not, check_or, check_correct,   *)
(*                            fail, override, set_context, set_env,        *)
(*                            disable_highlighting                         *)
(*   test_funcs/test_for_loop.py   test_for_loop                           *)
(*                                                                         *)
(* Execution is single-threaded and depth-first, so a run is a call stack  *)
(* of frames, one per active call of a combinator.  A check is an opaque   *)
(* callable: when it is invoked it either is a leaf check (it returns a    *)
(* State, raises TestFail with its feedback, or raises InstructorError) or *)
(* is itself a call of one of the combinators.                             *)
(***************************************************************************)
EXTENDS Integers, Sequences, FiniteSets, TLC

\* Bounds of the model.
MaxTests == 3      \* most arguments given to one combinator call
MaxNested == 1     \* most calls of combinators made as checks in one SCT
MaxLoops == 2      \* most for-loops found in a tree
MaxKeys == 2       \* most keys of a context
MaxChain == 2      \* most States derived one from the other in one chain

VARIABLES
    stack,     \* call stack of combinator frames, innermost last
    done,      \* <<f>>: the frame of the call that has just completed, else <<>>
    result,    \* <<r>>: what the top-level call returned or raised, else <<>>
    nested,    \* how many calls of combinators were run as checks so far
    chain,     \* the States of a chain of calls that derive States, from the
               \* State at its root to the State the chain has reached
    call,      \* <<c>>: the last call of the chain, its arguments and the
               \* State it was given, else <<>>
    error      \* <<e>>: the exception the last call of the chain raised,
               \* else <<>>

vars == <<stack, done, result, nested, chain, call, error>>

----------------------------------------------------------------------------
\* Python values

\* None, and a value that is not None, as a sequence of at most one element.
None == <<>>
Some(x) == <<x>>

\* Truth value of an optional Feedback: None is falsy, a Feedback object
\* (which defines neither __bool__ nor __len__) is truthy.
Truthy(x) == x # None

\* len(seq) > idx >= -len(seq): seq[idx] does not raise IndexError.
PyInRange(idx, n) == idx < n /\ idx >= -n

\* The 1-based position that seq[idx] reads, for a list of n elements.
PyAt(idx, n) == IF idx >= 0 THEN idx + 1 ELSE n + idx + 1

----------------------------------------------------------------------------
\* State, Feedback and the outcome of a call

\* An ordered mapping name -> value, as a sequence of [key, val] in
\* insertion order.
Keys(ctx) == [j \in 1..Len(ctx) |-> ctx[j].key]
KeySet(ctx) == {ctx[j].key : j \in 1..Len(ctx)}

\* mapping.update(pairs), returning the new mapping: a key already present
\* keeps its position and takes the new value, a new key is appended.
RECURSIVE Update(_, _)
Update(ctx, pairs) ==
    IF pairs = <<>> THEN ctx
    ELSE LET p == Head(pairs)
             upd == IF p.key \in KeySet(ctx)
                    THEN [j \in 1..Len(ctx) |->
                             IF ctx[j].key = p.key THEN p ELSE ctx[j]]
                    ELSE Append(ctx, p)
         IN  Update(upd, Tail(pairs))

\* The State at the root of a chain.  id stands for the identity of the
\* object: two States are the same object iff they have the same id.
RootState(sol_ctx, stu_ctx, force) ==
    [id |-> <<0>>,
     student_tree |-> [type |-> "Module", body |-> <<>>],
     solution_tree |-> [type |-> "Module", body |-> <<>>],
     student_env |-> <<>>,
     solution_env |-> <<>>,
     messages |-> <<>>,
     highlighting_disabled |-> FALSE,
     student_context |-> stu_ctx,
     solution_context |-> sol_ctx,
     student_part |-> <<>>,
     solution_part |-> <<>>,
     highlight |-> "root",
     force_diagnose |-> force]

\* state.to_child_state(**overrides): a new object, the fields that are not
\* overridden copied from the parent.
to_child_state(state, tag, overrides) ==
    [f \in DOMAIN state |->
        IF f = "id" THEN Append(state.id, tag)
        ELSE IF f \in DOMAIN overrides THEN overrides[f]
        ELSE state[f]]

\* Feedback(message): pre is what sub_test prepended to the message.
Feedback(msg, at) == [msg |-> msg, at |-> at, pre |-> <<>>]

\* A call returns val (None, or the id of the State object it returns), or
\* raises exc with feedback fb.
Returns(val) == [kind |-> "return", exc |-> "none", fb |-> None, val |-> val]
Raises(exc, fb) == [kind |-> "raise", exc |-> exc, fb |-> fb, val |-> None]

IsFail(r) == r.kind = "raise" /\ r.exc = "TestFail"

\* rep.do_test(Test(feedback)): a Test that wraps a feedback payload is an
\* unconditional failure, which the reporter raises as TestFail.
do_test(fb) == Raises("TestFail", fb)

\* Test(msg) for a message string wraps Feedback(msg).
TestMsg(msg) == Some(Feedback(msg, <<>>))

----------------------------------------------------------------------------
\* Frames

NoLoop == [index |-> 1, expand |-> TRUE, nstu |-> 0, nsol |-> 0]

\* A call that has just been entered.  tests: for each argument, whether it
\* is a check ("check") or falsy ("none").  path: the position of the call
\* in the tree of checks.  nest: how many combinator calls enclose it.
Frame(fn, path, nest, state, tests, aslist, msg, loop) ==
    [fn |-> fn, path |-> path, nest |-> nest, state |-> state,
     tests |-> tests, aslist |-> aslist, msg |-> msg, loop |-> loop,
     pc |-> "start", i |-> 1, log |-> <<>>,
     success |-> FALSE, first_feedback |-> None, feedback |-> None,
     res |-> None]

Finish(f, r) == [f EXCEPT !.pc = "done", !.res = Some(r)]

\* One entry of a frame's log: the idx-th argument was run with the State
\* whose id is sid, and ended in r.  sub: for a check run through multi, the
\* invocations that multi call made.
Entry(idx, sid, r, sub) == [idx |-> idx, sid |-> sid, res |-> r, sub |-> sub]
Logged(f, sid, r, sub) == [f EXCEPT !.log = Append(@, Entry(f.i, sid, r, sub))]

Invocations(log) == [j \in 1..Len(log) |-> [idx |-> log[j].idx, sid |-> log[j].sid]]

----------------------------------------------------------------------------
\* Leaf checks and the exceptions the combinators catch

LeafOutcomes == {"pass", "fail", "error"}

\* A leaf check run with State s: it returns a State of its own (pass),
\* reports its own feedback, which raises TestFail (fail), or raises
\* InstructorError (error).  at is the position of the check, which
\* tells its feedback from that of every other check.
Leaf(out, s, at) ==
    CASE out = "pass" -> Returns(Some(to_child_state(s, 0, <<>>).id))
      [] out = "fail" -> do_test(Some(Feedback("incorrect", at)))
      [] OTHER -> Raises("InstructorError", None)

\* `except TestFail`: the one exception check_not, check_or and
\* check_correct catch.
CatchesAny(exc) == TRUE
Catches(exc) == exc = "TestFail"

----------------------------------------------------------------------------
\* multi

\* any(args), where a single list argument stands for the list itself.
any_args(tests, aslist) ==
    IF aslist THEN tests # <<>>
    ELSE \E j \in 1..Len(tests) : tests[j] = "check"

\* The State multi hands to the test it is about to run.
multi_arg(f) == f.state

\* `return state`
multi_return_last(f) ==
    IF f.log = <<>> THEN Returns(Some(f.state.id))
    ELSE Returns(f.log[Len(f.log)].res.val)
multi_return(f) == Returns(Some(f.state.id))

multi_enter(f) ==
    IF any_args(f.tests, f.aslist) THEN [f EXCEPT !.pc = "loop"]
    ELSE Finish(f, multi_return(f))

\* The loop of multi where it runs no check: the arguments are exhausted,
\* or the argument is None and partial(None, state=state) raises TypeError.
multi_loop(f) ==
    IF f.i > Len(f.tests) THEN Finish(f, multi_return(f))
    ELSE Finish(f, Raises("TypeError", None))

\* rep.do_test(partial(test, state=state)) ended in r.
multi_after_swallow(f, r, sid) ==
    [Logged(f, sid, r, <<>>) EXCEPT !.i = @ + 1, !.pc = "loop"]
multi_after(f, r, sid) ==
    IF r.kind = "return"
    THEN [Logged(f, sid, r, <<>>) EXCEPT !.i = @ + 1, !.pc = "loop"]
    ELSE Finish(Logged(f, sid, r, <<>>), r)

----------------------------------------------------------------------------
\* check_not

\* The loop is exhausted: `return state`.
check_not_loop(f) == Finish(f, Returns(Some(f.state.id)))

\* `return rep.do_test(Test(msg))`
check_not_report_sub(f, r) ==
    IF f.log = <<>> \/ f.log[1].res.fb = None THEN do_test(TestMsg(f.msg))
    ELSE do_test(f.log[1].res.fb)
check_not_report(f, r) == do_test(TestMsg(f.msg))

\* multi(test, state=state) ended in r.
check_not_after(f, r, sub) ==
    LET g == Logged(f, f.state.id, r, sub)
    IN  IF r.kind = "raise"
        THEN IF Catches(r.exc)
             THEN [g EXCEPT !.i = @ + 1, !.pc = "loop"]
             ELSE Finish(g, r)
        ELSE Finish(g, check_not_report(g, r))

----------------------------------------------------------------------------
\* check_or

\* The loop is exhausted: rep.do_test(Test(first_feedback)).
check_or_loop(f) == Finish(f, do_test(f.first_feedback))

\* `if not first_feedback: first_feedback = e.feedback`
first_feedback_last(old, fb) == fb
first_feedback_upd(old, fb) == IF ~Truthy(old) THEN fb ELSE old

\* `if success: return`
check_or_success_goes_on(g) == [g EXCEPT !.success = TRUE, !.i = @ + 1, !.pc = "loop"]
check_or_success(g) == Finish([g EXCEPT !.success = TRUE], Returns(None))

\* multi(test, state=state) ended in r.
check_or_after(f, r, sub) ==
    LET g == Logged(f, f.state.id, r, sub)
    IN  IF r.kind = "raise"
        THEN IF Catches(r.exc)
             THEN [g EXCEPT !.first_feedback = first_feedback_upd(@, r.fb),
                            !.i = @ + 1, !.pc = "loop"]
             ELSE Finish(g, r)
        ELSE check_or_success(g)

----------------------------------------------------------------------------
\* check_correct

\* `if feedback is not None: rep.do_test(Test(feedback))`
check_correct_silent(f) == Finish(f, Returns(None))
check_correct_loop(f) ==
    IF f.feedback # None THEN Finish(f, do_test(f.feedback))
    ELSE Finish(f, Returns(None))

\* `if feedback is not None or state.force_diagnose: feedback = e.feedback`
diagnose_feedback_always(f, fb) == fb
diagnose_feedback(f, fb) ==
    IF f.feedback # None \/ f.state.force_diagnose THEN fb ELSE f.feedback

\* multi(check, state=state) (i = 1) or multi(diagnose, state=state)
\* (i = 2) ended in r.
check_correct_after_eager(f, r, sub) ==
    LET g == Logged(f, f.state.id, r, sub)
    IN  IF r.kind = "raise" THEN Finish(g, r)
        ELSE [g EXCEPT !.i = @ + 1, !.pc = "loop"]
check_correct_after(f, r, sub) ==
    LET g == Logged(f, f.state.id, r, sub)
    IN  IF r.kind = "raise" /\ ~Catches(r.exc) THEN Finish(g, r)
        ELSE IF f.i = 1
        THEN [g EXCEPT !.feedback = IF r.kind = "raise" THEN r.fb ELSE @,
                       !.i = 2, !.pc = "loop"]
        ELSE [g EXCEPT !.feedback = IF r.kind = "raise"
                                    THEN diagnose_feedback(f, r.fb) ELSE @,
                       !.i = 3, !.pc = "loop"]

----------------------------------------------------------------------------
\* test_for_loop

PartName == <<"sequence part", "body", "else part">>

\* The fixed message "Define more `for` loops." (without its backquotes).
DefineMore == "Define more for loops."

\* The zero-based index: `index = index - 1`.
zero_based(index) == index - 1

\* student_fors[index] raises (IndexError), which the bare except catches.
student_missing_never(f, nstu) == FALSE
student_missing(f, nstu) == ~PyInRange(zero_based(f.loop.index), nstu)

\* The State sub_test derives for the part f.i of the selected loops; for
\* the body and the else part the targets of the loops are the context.
part_state(f) ==
    LET stu == PyAt(zero_based(f.loop.index), f.loop.nstu)
        sol == PyAt(zero_based(f.loop.index), f.loop.nsol)
    IN  to_child_state(f.state, f.i,
            [student_part |-> <<stu, f.i>>,
             solution_part |-> <<sol, f.i>>,
             student_context |->
                 IF f.i = 1 THEN f.state.student_context
                 ELSE Update(f.state.student_context, <<[key |-> "target", val |-> stu]>>),
             solution_context |->
                 IF f.i = 1 THEN f.state.solution_context
                 ELSE Update(f.state.solution_context, <<[key |-> "target", val |-> sol]>>)])

\* From the call up to the parts: extract_for_calls() finds nstu loops in
\* the student tree and nsol loops in the solution tree.
test_for_loop_enter(f, nstu, nsol) ==
    LET g == [f EXCEPT !.loop.nstu = nstu, !.loop.nsol = nsol]
    IN  IF student_missing(f, nstu)
        THEN Finish(g, do_test(TestMsg(DefineMore)))
        ELSE IF ~PyInRange(zero_based(f.loop.index), nsol)
        THEN Finish(g, Raises("IndexError", None))
        ELSE [g EXCEPT !.pc = "loop"]

\* The parts for which sub_test runs no check: all three are done, or no
\* check was given for the part.
test_for_loop_loop(f) ==
    IF f.i > 3 THEN Finish(f, Returns(None))
    ELSE [f EXCEPT !.i = @ + 1, !.tests = Append(@, "none")]

\* "Check your code in the {incorrect_part} of the %s for loop. ", with
\* get_ord(index + 1) of the zero-based index.
prepend_fmt(f) == [part |-> PartName[f.i], ord |-> zero_based(f.loop.index) + 1]

\* The check of part f.i, run by sub_test with the State whose id is sid,
\* ended in r.
test_for_loop_after(f, r, sid) ==
    LET g == [Logged(f, sid, r, <<>>) EXCEPT !.tests = Append(@, "check")]
    IN  IF r.kind = "return" THEN [g EXCEPT !.i = @ + 1, !.pc = "loop"]
        ELSE IF IsFail(r) /\ f.loop.expand /\ r.fb # None
        THEN Finish(g, Raises("TestFail",
                 Some([r.fb[1] EXCEPT !.pre = <<prepend_fmt(f)>> \o @])))
        ELSE Finish(g, r)

----------------------------------------------------------------------------
\* The calls

ArgSeqs(lo, hi) == UNION {[1..n -> {"check", "none"}] : n \in lo..hi}
Checks(lo, hi) == {[j \in 1..n |-> "check"] : n \in lo..hi}
Msgs == {"M"}
Indexes == -1..(MaxLoops + 1)

\* The calls of the combinators whose arguments are all checks.
NestedCalls ==
    [fn : {"multi"}, tests : Checks(0, MaxTests), aslist : {FALSE},
     msg : {""}, loop : {NoLoop}]
    \cup [fn : {"check_not"}, tests : Checks(1, MaxTests), aslist : {FALSE},
          msg : Msgs, loop : {NoLoop}]
    \cup [fn : {"check_or"}, tests : Checks(1, MaxTests), aslist : {FALSE},
          msg : {""}, loop : {NoLoop}]
    \cup [fn : {"check_correct"}, tests : Checks(2, 2), aslist : {FALSE},
          msg : {""}, loop : {NoLoop}]

\* The calls at the root of an SCT: also multi with falsy arguments or with
\* a single list of tests.
Calls ==
    NestedCalls
    \cup [fn : {"multi"}, tests : ArgSeqs(0, MaxTests), aslist : BOOLEAN,
          msg : {""}, loop : {NoLoop}]

\* The calls of test_for_loop.  Whether for_iter, body and orelse are given
\* is drawn part by part, when the part is reached (see Step and LeafCheck).
ForLoopCalls ==
    [fn : {"test_for_loop"}, tests : {<<>>}, aslist : {FALSE}, msg : {""},
     loop : [index : Indexes, expand : BOOLEAN, nstu : {0}, nsol : {0}]]

\* The frame of call c, made with State s, up to its first step.
Enter(c, path, nest, s) ==
    LET f == Frame(c.fn, path, nest, s, c.tests, c.aslist, c.msg, c.loop)
    IN  CASE c.fn = "multi" -> multi_enter(f)
          [] c.fn = "test_for_loop" -> f
          [] OTHER -> [f EXCEPT !.pc = "loop"]

\* multi(test, state=state), as check_not, check_or and check_correct call it.
MultiOf(f) ==
    multi_enter(Frame("multi", Append(f.path, f.i), f.nest, f.state,
                      <<f.tests[f.i]>>, FALSE, "", NoLoop))

Top == stack[Len(stack)]
Running == stack # <<>> /\ result = None

\* The frame runs a check next: the State it hands to it.
RunsCheck(f) ==
    /\ f.pc = "loop"
    /\ \/ f.fn = "multi" /\ f.i <= Len(f.tests) /\ f.tests[f.i] = "check"
       \/ f.fn = "test_for_loop" /\ f.i <= 3
ArgState(f) == IF f.fn = "multi" THEN multi_arg(f) ELSE part_state(f)

\* The frame calls multi next.
CallsMulti(f) ==
    /\ f.pc = "loop"
    /\ f.fn \in {"check_not", "check_or", "check_correct"}
    /\ f.i <= Len(f.tests)

\* The call the frame waits for ended in r; c is its frame.
After(f, r, c) ==
    CASE f.fn = "multi" -> multi_after(f, r, c.state.id)
      [] f.fn = "test_for_loop" -> test_for_loop_after(f, r, c.state.id)
      [] f.fn = "check_not" -> check_not_after(f, r, Invocations(c.log))
      [] f.fn = "check_or" -> check_or_after(f, r, Invocations(c.log))
      [] OTHER -> check_correct_after(f, r, Invocations(c.log))

\* The step of a frame in which it neither runs a check nor calls multi.
Advance(f) ==
    CASE f.fn = "multi" -> multi_loop(f)
      [] f.fn = "test_for_loop" -> test_for_loop_loop(f)
      [] f.fn = "check_not" -> check_not_loop(f)
      [] f.fn = "check_or" -> check_or_loop(f)
      [] OTHER -> check_correct_loop(f)

SetTop(f) == [stack EXCEPT ![Len(stack)] = f]

----------------------------------------------------------------------------
\* Actions

Idle == stack = <<>> /\ result = None

\* The SCT calls a combinator on the State at the root of the chain.
Call ==
    /\ Idle
    /\ \E c \in Calls, force \in BOOLEAN :
           stack' = <<Enter(c, <<>>, 0, RootState(<<>>, <<>>, force))>>
    /\ done' = None
    /\ UNCHANGED <<result, nested, chain, call, error>>

\* The SCT calls test_for_loop on the State at the root of the chain.
CallForLoop ==
    /\ Idle
    /\ \E c \in ForLoopCalls :
           stack' = <<Enter(c, <<>>, 0, RootState(<<>>, <<>>, FALSE))>>
    /\ done' = None
    /\ UNCHANGED <<result, nested, chain, call, error>>

\* test_for_loop, from its call up to the first part.
Extract ==
    /\ Running
    /\ Top.fn = "test_for_loop" /\ Top.pc = "start"
    /\ \E nstu \in 0..MaxLoops, nsol \in 0..MaxLoops :
           stack' = SetTop(test_for_loop_enter(Top, nstu, nsol))
    /\ done' = None
    /\ UNCHANGED <<result, nested, chain, call, error>>

\* multi or sub_test runs a leaf check.
LeafCheck ==
    /\ Running
    /\ RunsCheck(Top)
    /\ \E out \in LeafOutcomes :
           LET s == ArgState(Top)
               r == Leaf(out, s, Append(Top.path, Top.i))
           IN  stack' = SetTop(After(Top, r, [state |-> s, log |-> <<>>]))
    /\ done' = None
    /\ UNCHANGED <<result, nested, chain, call, error>>

\* multi or sub_test runs a check that is a call of a combinator.
NestedCheck ==
    /\ Running
    /\ RunsCheck(Top)
    /\ nested < MaxNested
    /\ \E c \in NestedCalls :
           stack' = Append(SetTop([Top EXCEPT !.pc = "wait"]),
                           Enter(c, Append(Top.path, Top.i), Top.nest + 1,
                                 ArgState(Top)))
    /\ done' = None
    /\ nested' = nested + 1
    /\ UNCHANGED <<result, chain, call, error>>

\* check_not, check_or or check_correct calls multi on its next test.
CallMulti ==
    /\ Running
    /\ CallsMulti(Top)
    /\ stack' = Append(SetTop([Top EXCEPT !.pc = "wait"]), MultiOf(Top))
    /\ done' = None
    /\ UNCHANGED <<result, nested, chain, call, error>>

\* The other steps of a call: the end of its loop, a skipped argument.
Step ==
    /\ Running
    /\ Top.pc = "loop"
    /\ ~CallsMulti(Top)
    /\ ~RunsCheck(Top) \/ Top.fn = "test_for_loop"
    /\ stack' = SetTop(Advance(Top))
    /\ done' = None
    /\ UNCHANGED <<result, nested, chain, call, error>>

\* A call returns or raises to its caller.
Return ==
    /\ Running
    /\ Top.pc = "done"
    /\ done' = Some(Top)
    /\ IF Len(stack) = 1
       THEN /\ stack' = <<>>
            /\ result' = Top.res
       ELSE /\ stack' = [SubSeq(stack, 1, Len(stack) - 1) EXCEPT
                            ![Len(stack) - 1] = After(@, Top.res[1], Top)]
            /\ UNCHANGED result
    /\ UNCHANGED <<nested, chain, call, error>>

\* The chain has ended; the next SCT starts.
Reset ==
    /\ stack = <<>> /\ result # None
    /\ result' = None
    /\ done' = None
    /\ nested' = 0
    /\ UNCHANGED <<stack, chain, call, error>>

Init ==
    /\ stack = <<>>
    /\ done = None
    /\ result = None
    /\ nested = 0
    /\ chain = <<>>
    /\ call = None
    /\ error = None

\* The SCTs made of multi, check_not, check_or and check_correct.
Next ==
    \/ Call
    \/ LeafCheck
    \/ NestedCheck
    \/ CallMulti
    \/ Step
    \/ Return
    \/ Reset

Spec == Init /\ [][Next]_vars

\* The SCTs that call test_for_loop, with leaf checks as its parts.
NextFor ==
    \/ CallForLoop
    \/ Extract
    \/ LeafCheck
    \/ Step
    \/ Return
    \/ Reset

SpecFor == Init /\ [][NextFor]_vars

----------------------------------------------------------------------------
\* set_context

\* Names of context values (loop variables): those of the solution, and
\* those of a student who named them differently.
SolNames == <<"i", "j", "k", "l", "m", "n">>
StuNames == <<"a", "b", "c", "d", "e", "f">>
Vals == {1, 2}

Min(a, b) == IF a < b THEN a ELSE b

\* dict(zip(keys, vals)): as many pairs as the shorter of the two.
Zip(keys, vals) ==
    [j \in 1..Min(Len(keys), Len(vals)) |-> [key |-> keys[j], val |-> vals[j]]]

\* The value of key k in a mapping that has it.
Lookup(ctx, k) == ctx[CHOOSE j \in 1..Len(ctx) : ctx[j].key = k].val

InstructorError(msg, info) ==
    Raises("InstructorError", Some([msg |-> msg, at |-> info, pre |-> <<>>]))

\* `if len(args) > len(sol_crnt)`
too_many_never(args, sol_crnt) == FALSE
too_many(args, sol_crnt) == Len(args) > Len(sol_crnt)

\* The contexts after the positional arguments.
upd_sol(args, state) ==
    IF args # <<>>
    THEN Update(state.solution_context, Zip(Keys(state.solution_context), args))
    ELSE state.solution_context
upd_stu_sol_keys(args, state) ==
    IF args # <<>>
    THEN Update(state.student_context, Zip(Keys(state.solution_context), args))
    ELSE state.student_context
upd_stu(args, state) ==
    IF args # <<>>
    THEN Update(state.student_context, Zip(Keys(state.student_context), args))
    ELSE state.student_context

\* `set(kwargs) - set(upd_sol)`: the names given that the solution context
\* does not have.
unmatched_reversed(kwargs, upd) == KeySet(upd) \ KeySet(kwargs)
unmatched(kwargs, upd) == KeySet(kwargs) \ KeySet(upd)

\* `upd_sol or "missing"`, as the message formats it: the names of the
\* context, or the word missing for a context without names.
names_or_missing(upd) == [names |-> Keys(upd), missing |-> upd = <<>>]

\* The exception set_context raises, None when it raises none.
set_context_raises(args, kwargs, state) ==
    IF Len(args) > 0 /\ Len(kwargs) > 0
    THEN Some(InstructorError("specify arguments either by position, either by name", <<>>))
    ELSE IF args # <<>> /\ too_many(args, state.solution_context)
    THEN Some(InstructorError("Too many positional args",
                              <<Len(state.solution_context), Len(args)>>))
    ELSE IF kwargs # <<>> /\ unmatched(kwargs, upd_sol(args, state)) # {}
    THEN Some(InstructorError("context val names are",
                              names_or_missing(upd_sol(args, state))))
    ELSE None

\* `{match_keys[k]: v for k,v in kwargs.items() if k in match_keys}`: the
\* named values under the student's names, the names of the two contexts
\* matched by position.
renamed_not(kwargs, state) == kwargs
renamed(kwargs, state) ==
    LET match_keys == Zip(Keys(state.solution_context), Keys(state.student_context))
        matched == SelectSeq(kwargs, LAMBDA p : p.key \in KeySet(match_keys))
    IN  [j \in 1..Len(matched) |->
            [key |-> Lookup(match_keys, matched[j].key),
             val |-> matched[j].val]]

\* The child State set_context returns when it raises nothing.
set_context(args, kwargs, state) ==
    LET out_sol == IF kwargs # <<>> THEN Update(upd_sol(args, state), kwargs)
                   ELSE upd_sol(args, state)
        out_stu == IF kwargs # <<>>
                   THEN Update(upd_stu(args, state), renamed(kwargs, state))
                   ELSE upd_stu(args, state)
    IN  to_child_state(state, 1,
            [student_context |-> out_stu,
             solution_context |-> out_sol,
             highlight |-> state.highlight])

\* The contexts at the root of a chain: up to MaxKeys context values each,
\* unset (0), the student's named as in the solution, or named as in the
\* solution in the reverse order, or named differently.
ContextOf(names, n) == [j \in 1..n |-> [key |-> names[j], val |-> 0]]
Swapped(n) == [j \in 1..n |-> [key |-> SolNames[n + 1 - j], val |-> 0]]
SolContexts == {ContextOf(SolNames, n) : n \in 0..MaxKeys}
StuContexts ==
    SolContexts
    \cup {ContextOf(StuNames, n) : n \in 0..MaxKeys}
    \cup {Swapped(n) : n \in 2..MaxKeys}

\* The arguments of a call of set_context: values by position, or values by
\* name (in the order given), or both.
ArgVals == UNION {[1..n -> Vals] : n \in 0..(MaxKeys + 1)}
RECURSIVE KwargsFrom(_)
KwargsFrom(j) ==
    IF j > MaxKeys + 1 THEN {<<>>}
    ELSE LET rest == KwargsFrom(j + 1)
         IN  rest \cup {<<[key |-> SolNames[j], val |-> v]>> \o r :
                           v \in Vals, r \in rest}
Kwargs == KwargsFrom(1)
ContextCalls ==
    [args : ArgVals, kwargs : {<<>>}]
    \cup [args : {<<>>}, kwargs : Kwargs]
    \cup [args : {<<1>>}, kwargs : {k \in Kwargs : Len(k) = 1}]

Current == chain[Len(chain)]

\* set_context(*args, **kwargs) on the State the chain has reached: it
\* raises, or the chain goes on with the child State.
SetContext ==
    /\ chain # <<>> /\ call = None
    /\ Len(Current.id) <= MaxChain
    /\ \E c \in ContextCalls :
           LET e == set_context_raises(c.args, c.kwargs, Current)
           IN  /\ call' = Some([args |-> c.args, kwargs |-> c.kwargs,
                                state |-> Current])
               /\ IF e # None
                  THEN error' = e /\ chain' = chain
                  ELSE /\ error' = None
                       /\ chain' = <<chain[1], set_context(c.args, c.kwargs, Current)>>
    /\ UNCHANGED <<stack, done, result, nested>>

InitCtx ==
    /\ stack = <<>>
    /\ done = None
    /\ result = None
    /\ nested = 0
    /\ \E sol \in SolContexts, stu \in StuContexts :
           chain = <<RootState(sol, stu, FALSE)>>
    /\ call = None
    /\ error = None

\* The SCT goes on from the State the chain has reached.
Continue ==
    /\ call # None
    /\ call' = None
    /\ error' = None
    /\ UNCHANGED <<stack, done, result, nested, chain>>

NextCtx ==
    \/ SetContext
    \/ Continue

SpecCtx == InitCtx /\ [][NextCtx]_vars

----------------------------------------------------------------------------
\* fail, override, set_env, disable_highlighting

\* An AST node: its class and, for a Module, its body, for an
\* expression-statement (Expr), its value.
Module(body) == [type |-> "Module", body |-> body]
Expr(value) == [type |-> "Expr", value |-> value]
Node(type, src) == [type |-> type, src |-> src]

\* ast.parse(solution), for the solution codes of the model.
Sources == {"1+2", "round(x)", "x = 1", "x = 1; y = 2", ""}
parse(solution) ==
    CASE solution = "1+2" -> Module(<<Expr(Node("BinOp", "1+2"))>>)
      [] solution = "round(x)" -> Module(<<Expr(Node("Call", "round(x)"))>>)
      [] solution = "x = 1" -> Module(<<Node("Assign", "x = 1")>>)
      [] solution = "x = 1; y = 2" ->
             Module(<<Node("Assign", "x = 1"), Node("Assign", "y = 2")>>)
      [] OTHER -> Module(<<>>)

\* isinstance(node, old_ast.__class__), for nodes of concrete classes.
isinstance(node, old_ast) == node.type = old_ast.type

\* `[expr, expr.value] if isinstance(expr, ast.Expr) else [expr]`
candidates_stmt(expr) == <<expr>>
candidates(expr) == IF expr.type = "Expr" THEN <<expr, expr.value>> ELSE <<expr>>

\* The tree that replaces the solution tree.
new_ast(solution, old_ast) ==
    LET parsed == parse(solution)
    IN  IF old_ast.type # "Module" /\ Len(parsed.body) = 1
        THEN LET cand == candidates(parsed.body[1])
                 hits == {j \in 1..Len(cand) : isinstance(cand[j], old_ast)}
             IN  IF hits = {} THEN parsed
                 ELSE cand[CHOOSE j \in hits : \A h \in hits : j <= h]
        ELSE parsed

\* `state.messages[-1] if state.messages else {}`
last_message(state) ==
    IF state.messages # <<>> THEN state.messages[Len(state.messages)] ELSE <<>>

\* override(solution, state=state): the child State.  In the id of a State
\* the tag tells the call that derived it: 1 set_context, 2 set_env,
\* 3 override, 4 disable_highlighting.
override(solution, state) ==
    to_child_state(state, 3,
        [solution_tree |-> new_ast(solution, state.solution_tree),
         student_tree |-> state.student_tree,
         highlight |-> state.highlight,
         messages |-> Append(state.messages,
                             [msg |-> "", kwargs |-> last_message(state)])])

\* set_env(**kwargs, state=state): the child State.
set_env(kwargs, state) ==
    to_child_state(state, 2,
        [student_env |-> Update(state.student_env, kwargs),
         solution_env |-> Update(state.solution_env, kwargs),
         highlight |-> state.highlight])

\* The State given to set_env, as the call leaves it: update() returns a
\* new mapping and the State keeps its own.
set_env_state_inplace(kwargs, state) ==
    [state EXCEPT !.student_env = Update(@, kwargs),
                  !.solution_env = Update(@, kwargs)]
set_env_state(kwargs, state) == state

\* disable_highlighting(state=state): the child State.
disable_highlighting_not(state) == to_child_state(state, 4, <<>>)
disable_highlighting(state) ==
    to_child_state(state, 4, [highlighting_disabled |-> TRUE])

\* Feedback(message, state): the feedback carries the highlight of the
\* State unless highlighting is disabled for it.
StateFeedback(msg, state) ==
    [msg |-> msg, at |-> state.id, pre |-> <<>>,
     highlight |-> IF state.highlighting_disabled THEN None
                   ELSE Some(state.highlight)]

\* fail(msg, state=state)
fail(msg, state) == do_test(Some(StateFeedback(msg, state)))

\* The States at the root of a chain of calls: the solution tree is the
\* whole program, or a statement or an expression that a check has zoomed
\* in on; a message is pending or not.
OldTrees ==
    {Module(<<Node("Assign", "y = 0")>>), Node("Assign", "y = 0"),
     Expr(Node("BinOp", "3+4")), Node("BinOp", "3+4"), Node("Call", "f()")}
ChainRoots ==
    {[RootState(ContextOf(SolNames, 1), ContextOf(StuNames, 1), FALSE)
         EXCEPT !.solution_tree = t, !.messages = m] :
        t \in OldTrees, m \in {<<>>, <<[msg |-> "m", kwargs |-> <<>>]>>}}

\* The calls of a chain.
ChainContextCalls ==
    [args : {<<1>>, <<1, 2>>}, kwargs : {<<>>}]
    \cup [args : {<<>>}, kwargs : {<<[key |-> SolNames[j], val |-> 2]>> : j \in 1..2}]
EnvCalls == {<<[key |-> "x", val |-> v]>> : v \in Vals}

ChainCall(op, args, kwargs, solution) ==
    Some([op |-> op, args |-> args, kwargs |-> kwargs, solution |-> solution,
          state |-> Current, before |-> chain])

\* The chain can go on with one more call.
CanCall == chain # <<>> /\ call = None /\ Len(Current.id) <= MaxChain

\* set_context(*args, **kwargs) on the State the chain has reached.
CallSetContext ==
    /\ CanCall
    /\ \E c \in ChainContextCalls :
           LET e == set_context_raises(c.args, c.kwargs, Current)
           IN  /\ call' = ChainCall("set_context", c.args, c.kwargs, "")
               /\ IF e # None
                  THEN error' = e /\ chain' = chain
                  ELSE /\ error' = None
                       /\ chain' = Append(chain, set_context(c.args, c.kwargs, Current))
    /\ UNCHANGED <<stack, done, result, nested>>

\* set_env(**kwargs) on the State the chain has reached.
CallSetEnv ==
    /\ CanCall
    /\ \E kw \in EnvCalls :
           /\ call' = ChainCall("set_env", <<>>, kw, "")
           /\ chain' = Append([chain EXCEPT ![Len(chain)] = set_env_state(kw, Current)],
                              set_env(kw, Current))
    /\ error' = None
    /\ UNCHANGED <<stack, done, result, nested>>

\* override(solution) on the State the chain has reached.
CallOverride ==
    /\ CanCall
    /\ \E src \in Sources :
           /\ call' = ChainCall("override", <<>>, <<>>, src)
           /\ chain' = Append(chain, override(src, Current))
    /\ error' = None
    /\ UNCHANGED <<stack, done, result, nested>>

\* disable_highlighting() on the State the chain has reached.
CallDisableHighlighting ==
    /\ CanCall
    /\ call' = ChainCall("disable_highlighting", <<>>, <<>>, "")
    /\ chain' = Append(chain, disable_highlighting(Current))
    /\ error' = None
    /\ UNCHANGED <<stack, done, result, nested>>

\* fail(msg) on the State the chain has reached: the chain ends here with
\* the feedback reported.
CallFail ==
    /\ chain # <<>> /\ call = None
    /\ call' = ChainCall("fail", <<>>, <<>>, "")
    /\ error' = Some(fail("M", Current))
    /\ UNCHANGED <<stack, done, result, nested, chain>>

InitChain ==
    /\ stack = <<>>
    /\ done = None
    /\ result = None
    /\ nested = 0
    /\ \E s \in ChainRoots : chain = <<s>>
    /\ call = None
    /\ error = None

\* The SCT goes on after a call that derived a State.
GoOn ==
    /\ call # None /\ call[1].op # "fail"
    /\ call' = None
    /\ error' = None
    /\ UNCHANGED <<stack, done, result, nested, chain>>

NextChain ==
    \/ CallSetContext
    \/ CallSetEnv
    \/ CallOverride
    \/ CallDisableHighlighting
    \/ CallFail
    \/ GoOn

SpecChain == InitChain /\ [][NextChain]_vars

----------------------------------------------------------------------------
\* Properties of the combinators

\* The calls of fn that have just completed.
Completed(fn) == {d \in {done[j] : j \in 1..Len(done)} : d.fn = fn}
Res(d) == d.res[1]
Passed(e) == e.res.kind = "return"
Failed(e) == IsFail(e.res)
\* Entry j of the log is the j-th argument, run once with State s.
RanWith(d, j, s) == d.log[j].idx = j /\ d.log[j].sid = s.id
\* multi(test, state=s) ran the test once, with State s.
RanOnce(e, s) == e.sub = <<[idx |-> 1, sid |-> s.id]>>

\* C1: when a check given to multi fails, with ck the first that fails,
\* c1..ck were each run exactly once, in order and with the input State,
\* multi raises ck's failure, and no later check was run.
C1_MultiStopsAtFirstFailure ==
    \A d \in Completed("multi") :
        (\E j \in 1..Len(d.log) : Failed(d.log[j])) =>
            LET k == Len(d.log)
            IN  /\ k <= Len(d.tests)
                /\ \A j \in 1..k : RanWith(d, j, d.state)
                /\ \A j \in 1..(k - 1) : Passed(d.log[j])
                /\ Failed(d.log[k])
                /\ Res(d) = d.log[k].res

\* multi(c1, c2, c3): c1 passed, c2 failed and c3 was never run.
C1_Witness ==
    \E d \in Completed("multi") :
        /\ Len(d.tests) = 3 /\ Len(d.log) = 2
        /\ Passed(d.log[1]) /\ Failed(d.log[2])
        /\ IsFail(Res(d))

\* C2: when every argument of multi is a check and every check passes,
\* each was run and multi returns the State object it was given, whatever
\* the checks returned; with no argument, or falsy arguments only, it runs
\* nothing and returns that State as well.
C2_MultiReturnsInputState ==
    \A d \in Completed("multi") :
        /\ ( /\ \A j \in 1..Len(d.tests) : d.tests[j] = "check"
             /\ \A j \in 1..Len(d.log) : Passed(d.log[j]) )
           => /\ Len(d.log) = Len(d.tests)
              /\ Res(d) = Returns(Some(d.state.id))
        /\ ( \/ d.tests = <<>>
             \/ ~d.aslist /\ \A j \in 1..Len(d.tests) : d.tests[j] = "none" )
           => /\ d.log = <<>>
              /\ Res(d) = Returns(Some(d.state.id))

\* multi(c1, c2): both passed and returned States of their own.
C2_Witness ==
    \E d \in Completed("multi") :
        /\ Len(d.log) >= 2
        /\ \A j \in 1..Len(d.log) :
               Passed(d.log[j]) /\ d.log[j].res.val # Some(d.state.id)
        /\ Res(d).kind = "return"

\* C3: once a check given to check_or passes, check_or returns, reports no
\* failure and runs no later check, however many checks failed before.
C3_CheckOrShortCircuit ==
    \A d \in Completed("check_or") :
        \A j \in 1..Len(d.log) :
            Passed(d.log[j]) =>
                /\ j = Len(d.log)
                /\ \A h \in 1..j : RanWith(d, h, d.state)
                /\ Res(d) = Returns(None)

\* check_or(c1, c2, c3): c1 failed, c2 passed and c3 was never run.
C3_Witness ==
    \E d \in Completed("check_or") :
        /\ Len(d.tests) = 3 /\ Len(d.log) = 2
        /\ Failed(d.log[1]) /\ Passed(d.log[2])

\* C4: when every check given to check_or fails, each was run exactly once,
\* in order, and check_or raises the feedback of the first.
C4_CheckOrFirstFeedback ==
    \A d \in Completed("check_or") :
        (\A j \in 1..Len(d.log) : Failed(d.log[j])) =>
            /\ Len(d.log) = Len(d.tests)
            /\ \A j \in 1..Len(d.log) :
                   RanWith(d, j, d.state) /\ RanOnce(d.log[j], d.state)
            /\ Res(d) = Raises("TestFail", d.log[1].res.fb)

\* check_or(c1, c2, c3): all three failed, each with its own feedback.
C4_Witness ==
    \E d \in Completed("check_or") :
        /\ Len(d.log) = 3
        /\ \A j \in 1..3 : Failed(d.log[j])
        /\ d.log[1].res.fb # d.log[3].res.fb
        /\ IsFail(Res(d))

\* C5: check_not returns its input State when every test fails; otherwise,
\* at the first test that passes, it raises a failure whose message is
\* msg and runs no later test.
C5_CheckNot ==
    \A d \in Completed("check_not") :
        /\ (\A j \in 1..Len(d.log) : Failed(d.log[j])) =>
               /\ Len(d.log) = Len(d.tests)
               /\ Res(d) = Returns(Some(d.state.id))
        /\ \A j \in 1..Len(d.log) :
               Passed(d.log[j]) =>
                   /\ j = Len(d.log)
                   /\ \A h \in 1..(j - 1) : Failed(d.log[h])
                   /\ \A h \in 1..j : RanWith(d, h, d.state)
                   /\ Res(d) = Raises("TestFail", Some(Feedback(d.msg, <<>>)))

\* check_not(t1, t2, t3, msg=M): t1 failed, t2 passed, t3 was never run.
C5_Witness ==
    \E d \in Completed("check_not") :
        /\ Len(d.tests) = 3 /\ Len(d.log) = 2
        /\ Failed(d.log[1]) /\ Passed(d.log[2])
        /\ Res(d).fb # d.log[1].res.fb

Chosen(d) ==
    LET fails == {j \in 1..Len(d.log) : Failed(d.log[j])}
        passes == {j \in 1..Len(d.log) : Passed(d.log[j])}
    IN  CASE d.fn = "multi" ->
               IF fails = {} THEN None
               ELSE d.log[CHOOSE j \in fails : \A h \in fails : j <= h].res.fb
          [] d.fn = "check_not" ->
               IF passes = {} THEN None ELSE Some(Feedback(d.msg, <<>>))
          [] d.fn = "check_or" ->
               IF passes # {} THEN None ELSE d.log[1].res.fb
          [] OTHER ->
               IF 2 \in fails /\ (1 \in fails \/ d.state.force_diagnose)
               THEN d.log[2].res.fb
               ELSE IF 1 \in fails THEN d.log[1].res.fb
               ELSE None

\* C7: what a chain surfaces is the one feedback its combinator chooses: a
\* chain that ends in failure raises exactly that feedback, and a chain
\* whose combinator succeeds surfaces none of the failures it caught.
C7_OneFeedbackSurfaced ==
    \A r \in {result[j] : j \in 1..Len(result)} :
        \A d \in {done[j] : j \in 1..Len(done)} :
            (r.kind = "return" \/ IsFail(r)) =>
                /\ r.fb = Chosen(d)
                /\ IsFail(r) <=> Chosen(d) # None

\* check_or(c1, c2) at the root: c1 failed and was caught, c2 passed, and
\* the chain ends without a failure.
C7_Witness ==
    /\ result # None /\ done # None
    /\ done[1].fn = "check_or"
    /\ Len(done[1].log) = 2 /\ Failed(done[1].log[1]) /\ Passed(done[1].log[2])
    /\ result[1].kind = "return"

\* C8: an InstructorError raised by a check leaves the combinator as it is:
\* the combinator raises it unchanged and runs no later check.
C8_InstructorErrorPropagates ==
    \A d \in {done[j] : j \in 1..Len(done)} :
        \A j \in 1..Len(d.log) :
            (d.log[j].res.kind = "raise" /\ d.log[j].res.exc = "InstructorError") =>
                /\ j = Len(d.log)
                /\ Res(d) = d.log[j].res

\* check_not(t1, t2, t3), itself a check of a combinator: t1 failed as
\* expected, t2 raised InstructorError, t3 was never run.
C8_Witness ==
    \E d \in Completed("check_not") :
        /\ d.nest = 1
        /\ Len(d.tests) = 3 /\ Len(d.log) = 2
        /\ Failed(d.log[1])
        /\ d.log[2].res.exc = "InstructorError"
        /\ Res(d).exc = "InstructorError"

\* C9: when the requested index exceeds the number of for-loops of the
\* student tree, test_for_loop reports "Define more `for` loops." and runs
\* none of the for_iter, body and orelse checks.
C9_DefineMoreForLoops ==
    \A d \in Completed("test_for_loop") :
        d.loop.index > d.loop.nstu =>
            /\ IsFail(Res(d))
            /\ Res(d).fb = Some(Feedback(DefineMore, <<>>))
            /\ d.log = <<>>
            /\ d.tests = <<>>

\* The solution has 2 for-loops, the student 1, and index is 2.
C9_Witness ==
    \E d \in Completed("test_for_loop") :
        d.loop.nsol = 2 /\ d.loop.nstu = 1 /\ d.loop.index = 2

\* C15 (as claimed): when the requested index exceeds the number of
\* for-loops of the student tree, test_for_loop returns normally: no
\* exception escapes to its caller.
C15_ReturnsNormally ==
    \A d \in Completed("test_for_loop") :
        d.loop.index > d.loop.nstu => Res(d).kind = "return"

\* The State that sub_test derived for the part of log entry e.
PartOf(d, e) == part_state([d EXCEPT !.i = e.idx])

\* C16 (as claimed): every sub-check test_for_loop runs is run on a part of
\* the loop of the student tree that the requested index N denotes
\* (1-indexed), paired with the same part of the N-th loop of the solution
\* tree, so that an N that denotes no loop of the student tree selects no
\* loop; and the ordinal of the failure prefix is N.
C16_SelectsNthLoop ==
    \A d \in Completed("test_for_loop") :
        \A j \in 1..Len(d.log) :
            LET e == d.log[j]
            IN  /\ d.loop.index \in 1..d.loop.nstu
                /\ e.sid = PartOf(d, e).id
                /\ PartOf(d, e).student_part = <<d.loop.index, e.idx>>
                /\ PartOf(d, e).solution_part = <<d.loop.index, e.idx>>
                /\ (IsFail(Res(d)) /\ d.loop.expand) =>
                       Res(d).fb[1].pre[1].ord = d.loop.index

\* The calls of check_correct in progress or just completed.
CheckCorrectCalls ==
    {stack[j] : j \in {h \in 1..Len(stack) : stack[h].fn = "check_correct"}}
    \cup Completed("check_correct")

----------------------------------------------------------------------------
\* Properties of set_context

\* C10: set_context called by position with more values than the solution
\* context has keys raises InstructorError "Too many positional args" and
\* derives no State; with at most as many values it raises nothing and the
\* chain goes on with a child of the State it was given.
C10_TooManyPositional ==
    \A c \in {call[j] : j \in 1..Len(call)} :
        (c.kwargs = <<>> /\ c.args # <<>>) =>
            IF Len(c.args) > Len(c.state.solution_context)
            THEN /\ error # None
                 /\ error[1].exc = "InstructorError"
                 /\ error[1].fb[1].msg = "Too many positional args"
                 /\ Current = c.state
            ELSE /\ error = None
                 /\ Current.id = Append(c.state.id, 1)

\* set_context(1, 2) on a solution context with the single key i has raised.
C10_Witness ==
    /\ call # None /\ error # None
    /\ call[1].args = <<1, 2>> /\ call[1].kwargs = <<>>
    /\ Keys(call[1].state.solution_context) = <<"i">>

\* C11: set_context called by name with a name that is not a key of the
\* solution context raises InstructorError "context val names are ...",
\* which lists the keys of the solution context, and derives no State; when
\* every name is a key it raises nothing and the chain goes on with a child
\* of the State it was given.
C11_UnknownNameRaises ==
    \A c \in {call[j] : j \in 1..Len(call)} :
        (c.args = <<>> /\ c.kwargs # <<>>) =>
            IF \E j \in 1..Len(c.kwargs) :
                   c.kwargs[j].key \notin KeySet(c.state.solution_context)
            THEN /\ error # None
                 /\ error[1].exc = "InstructorError"
                 /\ error[1].fb[1].msg = "context val names are"
                 /\ error[1].fb[1].at.names = Keys(c.state.solution_context)
                 /\ Current = c.state
            ELSE /\ error = None
                 /\ Current.id = Append(c.state.id, 1)

\* set_context(j=...) on a solution context with the single key i has
\* raised, naming i.
C11_Witness ==
    /\ call # None /\ error # None
    /\ call[1].args = <<>> /\ Len(call[1].kwargs) = 1
    /\ call[1].kwargs[1].key = "j"
    /\ error[1].fb[1].at.names = <<"i">>

\* The value given for the context value at position j of the solution
\* context, None when the call gives none: by position the j-th value, by
\* name the value named as the j-th key of the solution context.
GivenAt(c, j) ==
    LET sol == c.state.solution_context
    IN  IF c.args # <<>>
        THEN IF j <= Len(c.args) THEN Some(c.args[j]) ELSE None
        ELSE IF j <= Len(sol) /\ sol[j].key \in KeySet(c.kwargs)
        THEN Some(Lookup(c.kwargs, sol[j].key))
        ELSE None

\* ctx with the values the call gives bound by position, the keys as they
\* were.
Rebound(c, ctx) ==
    [j \in 1..Len(ctx) |->
        [key |-> ctx[j].key,
         val |-> IF GivenAt(c, j) # None THEN GivenAt(c, j)[1] ELSE ctx[j].val]]

\* C17: a call of set_context that raises nothing binds each value it gives
\* by position: the value given for the j-th key of the solution context
\* (the j-th positional value, or the value named as that key) is bound to
\* the j-th key of the solution context and to the j-th key of the student
\* context, whatever the student named it.  Hence, for contexts of the same
\* size, set_context(v1, ..., vk) derives the same two contexts as
\* set_context(s1=v1, ..., sk=vk).
C17_BoundByPosition ==
    \A c \in {call[j] : j \in 1..Len(call)} :
        error = None =>
            /\ Current.solution_context = Rebound(c, c.state.solution_context)
            /\ Current.student_context = Rebound(c, c.state.student_context)
            /\ ( /\ c.args # <<>>
                 /\ Len(c.state.solution_context) = Len(c.state.student_context) )
               => LET named == Zip(Keys(c.state.solution_context), c.args)
                      byname == set_context(<<>>, named, c.state)
                  IN  /\ set_context_raises(<<>>, named, c.state) = None
                      /\ Current.solution_context = byname.solution_context
                      /\ Current.student_context = byname.student_context

\* set_context(i=1, j=2) on the solution context [i, j] and the student
\* context [a, b], some value already bound: a and b are bound to 1 and 2.
C17_Witness ==
    /\ call # None /\ error = None
    /\ call[1].args = <<>>
    /\ call[1].kwargs = <<[key |-> "i", val |-> 1], [key |-> "j", val |-> 2]>>
    /\ Keys(call[1].state.student_context) = <<"a", "b">>
    /\ call[1].state.student_context[1].val = 2
    /\ Current.student_context =
           <<[key |-> "a", val |-> 1], [key |-> "b", val |-> 2]>>

\* C19: along a chain of set_context calls both contexts keep the keys they
\* had at the root of the chain, in their order: set_context binds values
\* and neither adds nor removes a key, so that contexts of the same size
\* stay of the same size.
C19_KeysPreserved ==
    \A j \in 1..Len(chain) :
        /\ Keys(chain[j].solution_context) = Keys(chain[1].solution_context)
        /\ Keys(chain[j].student_context) = Keys(chain[1].student_context)
        /\ Len(chain[1].solution_context) = Len(chain[1].student_context)
           => Len(chain[j].solution_context) = Len(chain[j].student_context)

\* Two calls of set_context in a row have succeeded, the second by position,
\* on contexts of two keys that the student named differently.
C19_Witness ==
    /\ call # None /\ error = None
    /\ Len(Current.id) = 3
    /\ Len(call[1].args) = 2
    /\ Keys(Current.solution_context) = <<"i", "j">>
    /\ Keys(Current.student_context) = <<"a", "b">>
    /\ Current.student_context[1].val # Current.student_context[2].val

----------------------------------------------------------------------------
\* Properties of fail, override, set_env and disable_highlighting

\* C12: the solution tree of the child State of override(solution): when
\* the old solution tree is no Module and the parsed solution has exactly
\* one statement, the statement if it is of the class of the old tree,
\* else its value if it is an expression-statement whose value is of that
\* class; in every other case the whole parsed Module.  So override("1+2")
\* on a solution tree that is a BinOp expression gives the parsed BinOp
\* node, not the Module around it.
C12_OverrideSubtree ==
    \A c \in {call[j] : j \in 1..Len(call)} :
        c.op = "override" =>
            LET old == c.state.solution_tree
                parsed == parse(c.solution)
                stmt == parsed.body[1]
            IN  /\ Current.solution_tree =
                       IF old.type = "Module" \/ Len(parsed.body) # 1 THEN parsed
                       ELSE IF stmt.type = old.type THEN stmt
                       ELSE IF stmt.type = "Expr" /\ stmt.value.type = old.type
                       THEN stmt.value
                       ELSE parsed
                /\ (c.solution = "1+2" /\ old.type = "BinOp") =>
                       Current.solution_tree = Node("BinOp", "1+2")

\* override("1+2") on a State whose solution tree is the expression 3+4.
C12_Witness ==
    /\ call # None
    /\ call[1].op = "override" /\ call[1].solution = "1+2"
    /\ call[1].state.solution_tree = Node("BinOp", "3+4")
    /\ Current.solution_tree.type = "BinOp"

\* The State was derived through a call of disable_highlighting.
AfterDisable(state) == \E h \in 1..Len(state.id) : state.id[h] = 4

\* C13: every State derived through disable_highlighting, directly or by
\* any calls after it in the chain, has highlighting disabled, and the
\* feedback reported from such a State carries no highlight.
C13_HighlightingStaysDisabled ==
    /\ \A j \in 1..Len(chain) :
           AfterDisable(chain[j]) => chain[j].highlighting_disabled
    /\ \A j \in 1..Len(chain) : \A k \in j..Len(chain) :
           chain[j].highlighting_disabled => chain[k].highlighting_disabled
    /\ \A c \in {call[j] : j \in 1..Len(call)} :
           (c.op = "fail" /\ AfterDisable(c.state)) =>
               /\ IsFail(error[1])
               /\ error[1].fb[1].highlight = None

\* disable_highlighting(), then a call that derives a State with a
\* highlight, then fail(): the feedback carries no highlight.
C13_Witness ==
    /\ call # None /\ error # None
    /\ call[1].op = "fail"
    /\ Len(call[1].state.id) = 3 /\ call[1].state.id[2] = 4
    /\ call[1].state.highlight = "root"
    /\ error[1].fb[1].highlight = None

\* The fields that a call hands to to_child_state.
Specified(op) ==
    CASE op = "set_context" -> {"student_context", "solution_context", "highlight"}
      [] op = "set_env" -> {"student_env", "solution_env", "highlight"}
      [] op = "override" -> {"solution_tree", "student_tree", "highlight", "messages"}
      [] OTHER -> {"highlighting_disabled"}

====
